---- MODULE Spec2Model ----
(***************************************************************************)
(* A model of stellar-core's src/util/Fs.cpp (POSIX branch):               *)
(*   - lockFile / unlockFile and the process-wide lockMap, run by several  *)
(*     processes against one kernel (directory entries, inodes, open file  *)
(*     descriptors, flock owners);                                         *)
(*   - exists / mkdir / mkpath over a tree of directories and files;       *)
(*   - deltree (nftw with FTW_DEPTH and the removing callback);            *)
(*   - hexStr / hexDir / baseName / remoteDir / remoteName as functions    *)
(*     on strings of characters.                                           *)
(***************************************************************************)
EXTENDS Integers, Sequences, FiniteSets, TLC

\* ------------------------------------------------------------------------
\* Bounds of the lock model
\* ------------------------------------------------------------------------
NumProcs == 2
MaxFds == 3
MaxInodes == 2

NoPath == "-"
Procs == 1..NumProcs
\* the path strings the callers pass to lockFile and unlockFile
Paths == {"a.lock", "b.lock"}
Fds == 1..MaxFds
\* a file is identified by the path it was created at and by its rank among
\* the files created at that path (an inode number)
Inodes == Paths \X (1..MaxInodes)
NoIno == <<NoPath, 0>>
NoFd == -1
NoOwner == <<0, 0>>

VARIABLES
    \* kernel state shared by all processes
    dirent,      \* [Paths -> Inodes \cup {NoIno}]: the file a path names
    ncreated,    \* [Paths -> 0..MaxInodes]: files created at a path so far
    fdtab,       \* [Procs -> [Fds -> Inodes \cup {NoIno}]]: open descriptors
    flockOwner,  \* [Inodes -> <<proc, fd>> or NoOwner]: holder of LOCK_EX
    \* per-process state of Fs.cpp
    lockMap,     \* [Procs -> set of <<path, fd>>]: static std::map lockMap
    pc,          \* [Procs -> "idle" | "entry" | "flock" | "ret"]
    op,          \* [Procs -> "none" | "lockFile" | "unlockFile"]
    arg,         \* [Procs -> path argument of the current/last call]
    fd,          \* [Procs -> local variable fd of lockFile]
    r,           \* [Procs -> local variable r of lockFile: "unset" | "0" | "-1"]
    res,         \* [Procs -> "none" | "true" | "false" | "void" | "throw"]
    \* history
    held,        \* [Procs -> paths whose last successful lockFile is not
                 \*  yet followed by a successful unlockFile]
    again,       \* [Procs -> TRUE when the call just before the current
                 \*  one was a successful unlockFile of the same path]
    \* the directory tree (the root always exists and is not listed)
    dirs,        \* set of nodes that are directories
    files,       \* set of nodes that are regular files
    denied,      \* set of nodes the kernel refuses to create (EACCES)
    noread,      \* set of directories that cannot be opened for reading
    fs0,         \* [dirs, files] when the running operation was called
    \* mkpath
    mkArg,       \* the argument path, a sequence of characters
    pos,         \* local variable pos of mkpath
    mkPc,        \* "idle" | "loop" | "done"
    mkRes,       \* "none" | "true" | "false" | "throw"
    mkLog,       \* the calls of exists and mkdir made so far, in order
    \* deltree
    delArg,      \* the argument d, a sequence of characters
    delPc,       \* "idle" | "call" | "walk" | "done"
    walk,        \* nftw: the directories being read, the deepest last
    rmLog,       \* the calls of rmdir and std::remove made so far, in order
    delRes,      \* "none" | "void" | "throw"
    \* the naming functions
    ndebug,      \* TRUE when the build defines NDEBUG (assert expands to nothing)
    nmFn,        \* the function called: "none" | "hexStr" | "hexDir" | ...
    nmId,        \* argument checkpointNum of hexStr
    nmType,      \* argument type
    nmHex,       \* argument hexStr
    nmSuffix,    \* argument suffix
    nmPc,        \* "idle" | "call" | "done"
    nmOut        \* the string returned, or Aborted

lockVars == <<dirent, ncreated, fdtab, flockOwner, lockMap, pc, op, arg, fd, r,
              res, held, again>>

fsVars == <<dirs, files, denied, noread, fs0>>

mkVars == <<mkArg, pos, mkPc, mkRes, mkLog>>

delVars == <<delArg, delPc, walk, rmLog, delRes>>

nmVars == <<ndebug, nmFn, nmId, nmType, nmHex, nmSuffix, nmPc, nmOut>>

vars == <<lockVars, fsVars, mkVars, delVars, nmVars>>

\* ------------------------------------------------------------------------
\* std::map<std::string, int>
\* ------------------------------------------------------------------------
Keys(m) == {e[1] : e \in m}

\* lockMap.find(path) != lockMap.end()
MapContains(m, k) == \E e \in m : e[1] = k

\* it->second of lockMap.find(path)
MapGet(m, k) == (CHOOSE e \in m : e[1] = k)[2]

\* std::map::insert: keeps the existing element when the key is present
MapInsert(m, k, v) == IF MapContains(m, k) THEN m ELSE m \cup {<<k, v>>}

\* std::map::erase(it)
MapEraseNoop(m, k) == m
MapErase(m, k) == {e \in m : e[1] # k}

\* ------------------------------------------------------------------------
\* The kernel: open(O_RDWR | O_CREAT), flock(LOCK_EX | LOCK_NB), close
\* ------------------------------------------------------------------------
Lowest(S) == CHOOSE x \in S : \A y \in S : x <= y

\* open(): -1 when the kernel refuses (EACCES, ENOENT of the directory...),
\* when the descriptor table is full (EMFILE) or when the file has to be
\* created and no inode is left (ENOSPC); otherwise the lowest free
\* descriptor, on the existing file or on a newly created one.
OpenFd(p, path, refused) ==
    LET free == {f \in Fds : fdtab[p][f] = NoIno}
    IN  IF refused \/ free = {} \/ (dirent[path] = NoIno /\ ncreated[path] = MaxInodes)
        THEN NoFd
        ELSE Lowest(free)

OpenInode(path) ==
    IF dirent[path] # NoIno THEN dirent[path] ELSE <<path, ncreated[path] + 1>>

\* flock(fd, LOCK_EX | LOCK_NB) == 0: no other open file description holds
\* a lock on the file (each open() makes an open file description of its own)
FlockAlwaysGranted(p, f) == TRUE
FlockGranted(p, f) ==
    flockOwner[fdtab[p][f]] \in {NoOwner, <<p, f>>}

\* close(fd): the descriptor is released, and with it the lock its open file
\* description holds
CloseForgotten(p, f) == fdtab
CloseFdtab(p, f) == [fdtab EXCEPT ![p][f] = NoIno]

CloseKeepsLock(p, f) == flockOwner
CloseFlock(p, f) ==
    [i \in Inodes |-> IF flockOwner[i] = <<p, f>> THEN NoOwner ELSE flockOwner[i]]

\* what unlockFile does to the directory: nothing ("cannot unlink")
\* close, then unlink(path)
UnlockUnlinks(path) == [dirent EXCEPT ![path] = NoIno]
UnlockDirent(path) == dirent

\* ------------------------------------------------------------------------
\* Initial state: process start, empty lockMap, no lock file yet
\* ------------------------------------------------------------------------
LockInit ==
    /\ dirent = [x \in Paths |-> NoIno]
    /\ ncreated = [x \in Paths |-> 0]
    /\ fdtab = [p \in Procs |-> [f \in Fds |-> NoIno]]
    /\ flockOwner = [i \in Inodes |-> NoOwner]
    /\ lockMap = [p \in Procs |-> {}]
    /\ pc = [p \in Procs |-> "idle"]
    /\ op = [p \in Procs |-> "none"]
    /\ arg = [p \in Procs |-> NoPath]
    /\ fd = [p \in Procs |-> NoFd]
    /\ r = [p \in Procs |-> "unset"]
    /\ res = [p \in Procs |-> "none"]
    /\ held = [p \in Procs |-> {}]
    /\ again = [p \in Procs |-> FALSE]

\* no filesystem operation is running
MkIdle ==
    /\ mkArg = <<>> /\ pos = 0 /\ mkPc = "idle" /\ mkRes = "none"
    /\ mkLog = <<>>

DelIdle ==
    /\ delArg = <<>> /\ delPc = "idle" /\ walk = <<>> /\ rmLog = <<>>
    /\ delRes = "none"

FsIdle ==
    /\ dirs = {} /\ files = {} /\ denied = {} /\ noread = {}
    /\ fs0 = [dirs |-> {}, files |-> {}]

NmIdle ==
    /\ ndebug = FALSE /\ nmFn = "none" /\ nmId = <<0, 0>>
    /\ nmType = <<>> /\ nmHex = <<>> /\ nmSuffix = <<>>
    /\ nmPc = "idle" /\ nmOut = <<>>

\* ------------------------------------------------------------------------
\* A process calls lockFile(path) or unlockFile(path)
\* ------------------------------------------------------------------------
Enter(p, f, path) ==
    /\ pc[p] \in {"idle", "ret"}
    /\ pc' = [pc EXCEPT ![p] = "entry"]
    /\ op' = [op EXCEPT ![p] = f]
    /\ arg' = [arg EXCEPT ![p] = path]
    /\ fd' = [fd EXCEPT ![p] = NoFd]
    /\ r' = [r EXCEPT ![p] = "unset"]
    /\ res' = [res EXCEPT ![p] = "none"]
    /\ again' = [again EXCEPT ![p] =
            op[p] = "unlockFile" /\ res[p] = "void" /\ arg[p] = path]
    /\ UNCHANGED <<dirent, ncreated, fdtab, flockOwner, lockMap, held>>
    /\ UNCHANGED <<fsVars, mkVars, delVars, nmVars>>

CallLockFile(p, path) == Enter(p, "lockFile", path)

CallUnlockFile(p, path) == Enter(p, "unlockFile", path)

Return(p, outcome) ==
    /\ pc' = [pc EXCEPT ![p] = "ret"]
    /\ res' = [res EXCEPT ![p] = outcome]
    /\ held' = [held EXCEPT ![p] =
            IF op[p] = "lockFile" /\ outcome = "true"
            THEN held[p] \cup {arg[p]}
            ELSE IF op[p] = "unlockFile" /\ outcome = "void"
            THEN held[p] \ {arg[p]}
            ELSE held[p]]

LockFileAlreadyLockedReturnsFalse(p) ==
    /\ pc[p] = "entry" /\ op[p] = "lockFile"
    /\ MapContains(lockMap[p], arg[p])
    /\ Return(p, "false")
    /\ UNCHANGED <<dirent, ncreated, fdtab, flockOwner, lockMap, op, arg, fd,
                   r, again>>
    /\ UNCHANGED <<fsVars, mkVars, delVars, nmVars>>

\* lockFile, lines 155-158: the path is already a key of lockMap
LockFileAlreadyLocked(p) ==
    /\ pc[p] = "entry" /\ op[p] = "lockFile"
    /\ MapContains(lockMap[p], arg[p])
    /\ Return(p, "throw")
    /\ UNCHANGED <<dirent, ncreated, fdtab, flockOwner, lockMap, op, arg, fd,
                   r, again>>
    /\ UNCHANGED <<fsVars, mkVars, delVars, nmVars>>

\* lockFile, lines 155-161 and 174: the find, then open()
LockFileOpen(p) ==
    /\ pc[p] = "entry" /\ op[p] = "lockFile"
    /\ ~MapContains(lockMap[p], arg[p])
    /\ \E refused \in BOOLEAN :
         LET f == OpenFd(p, arg[p], refused)
             i == OpenInode(arg[p])
         IN  IF f = NoFd
             THEN /\ Return(p, "false")
                  /\ UNCHANGED <<dirent, ncreated, fdtab, fd>>
             ELSE /\ dirent' = [dirent EXCEPT ![arg[p]] = i]
                  /\ ncreated' = [ncreated EXCEPT ![arg[p]] =
                        IF dirent[arg[p]] = NoIno THEN @ + 1 ELSE @]
                  /\ fdtab' = [fdtab EXCEPT ![p][f] = i]
                  /\ fd' = [fd EXCEPT ![p] = f]
                  /\ pc' = [pc EXCEPT ![p] = "flock"]
                  /\ UNCHANGED <<res, held>>
    /\ UNCHANGED <<flockOwner, lockMap, op, arg, r, again>>
    /\ UNCHANGED <<fsVars, mkVars, delVars, nmVars>>

\* flock(fd, LOCK_EX) without LOCK_NB: the call returns once the lock is free
LockFileFlockBlocking(p) ==
    /\ pc[p] = "flock"
    /\ FlockGranted(p, fd[p])
    /\ flockOwner' = [flockOwner EXCEPT ![fdtab[p][fd[p]]] = <<p, fd[p]>>]
    /\ lockMap' = [lockMap EXCEPT ![p] = MapInsert(@, arg[p], fd[p])]
    /\ r' = [r EXCEPT ![p] = "0"]
    /\ Return(p, "true")
    /\ UNCHANGED <<fdtab, fd, dirent, ncreated, op, arg, again>>
    /\ UNCHANGED <<fsVars, mkVars, delVars, nmVars>>

\* lockFile, lines 163-174: flock(), then insert or close
LockFileFlock(p) ==
    /\ pc[p] = "flock"
    /\ IF FlockGranted(p, fd[p])
       THEN /\ flockOwner' = [flockOwner EXCEPT ![fdtab[p][fd[p]]] = <<p, fd[p]>>]
            /\ lockMap' = [lockMap EXCEPT ![p] = MapInsert(@, arg[p], fd[p])]
            /\ r' = [r EXCEPT ![p] = "0"]
            /\ Return(p, "true")
            /\ UNCHANGED <<fdtab, fd>>
       ELSE /\ fdtab' = CloseFdtab(p, fd[p])
            /\ flockOwner' = CloseFlock(p, fd[p])
            /\ fd' = [fd EXCEPT ![p] = NoFd]
            /\ r' = [r EXCEPT ![p] = "-1"]
            /\ Return(p, "false")
            /\ UNCHANGED lockMap
    /\ UNCHANGED <<dirent, ncreated, op, arg, again>>
    /\ UNCHANGED <<fsVars, mkVars, delVars, nmVars>>

\* unlockFile, lines 180-186: close the handle, erase the entry
UnlockFileRelease(p) ==
    /\ pc[p] = "entry" /\ op[p] = "unlockFile"
    /\ MapContains(lockMap[p], arg[p])
    /\ LET f == MapGet(lockMap[p], arg[p])
       IN  /\ fdtab' = CloseFdtab(p, f)
           /\ flockOwner' = CloseFlock(p, f)
    /\ dirent' = UnlockDirent(arg[p])
    /\ lockMap' = [lockMap EXCEPT ![p] = MapErase(@, arg[p])]
    /\ Return(p, "void")
    /\ UNCHANGED <<ncreated, op, arg, fd, r, again>>
    /\ UNCHANGED <<fsVars, mkVars, delVars, nmVars>>

UnlockFileNotLockedSilent(p) ==
    /\ pc[p] = "entry" /\ op[p] = "unlockFile"
    /\ ~MapContains(lockMap[p], arg[p])
    /\ Return(p, "void")
    /\ UNCHANGED <<dirent, ncreated, fdtab, flockOwner, lockMap, op, arg, fd,
                   r, again>>
    /\ UNCHANGED <<fsVars, mkVars, delVars, nmVars>>

\* unlockFile, lines 187-190: the path is not a key of lockMap
UnlockFileNotLocked(p) ==
    /\ pc[p] = "entry" /\ op[p] = "unlockFile"
    /\ ~MapContains(lockMap[p], arg[p])
    /\ Return(p, "throw")
    /\ UNCHANGED <<dirent, ncreated, fdtab, flockOwner, lockMap, op, arg, fd,
                   r, again>>
    /\ UNCHANGED <<fsVars, mkVars, delVars, nmVars>>

LockStep(p) ==
    \/ \E path \in Paths : CallLockFile(p, path)
    \/ \E path \in Paths : CallUnlockFile(p, path)
    \/ LockFileAlreadyLocked(p)
    \/ LockFileOpen(p)
    \/ LockFileFlock(p)
    \/ UnlockFileRelease(p)
    \/ UnlockFileNotLocked(p)

LockNext == \E p \in Procs : LockStep(p)

Init == LockInit /\ FsIdle /\ MkIdle /\ DelIdle /\ NmIdle

Spec == Init /\ [][LockNext]_vars

\* ------------------------------------------------------------------------
\* Path strings: sequences of characters, indexed from 0 as in the source
\* ------------------------------------------------------------------------
MaxPathLen == 5
FsDepth == 2

Chars == {"/", "a", "b"}

Str(n) == UNION {[1..k -> Chars] : k \in 0..n}

\* "a/b/c"
StrABC == <<"a", "/", "b", "/", "c">>

\* std::string::npos
Npos == -1

\* path.find('/', from)
Find(s, from) ==
    LET hits == {i \in from..(Len(s) - 1) : s[i + 1] = "/"}
    IN  IF hits = {} THEN Npos ELSE Lowest(hits)

\* path.substr(0, n)
Substr(s, n) == SubSeq(s, 1, n)

\* ------------------------------------------------------------------------
\* The kernel's view of a path: stat(2) and mkdir(2)
\* A node is the sequence of the names on the way from the root; the working
\* directory of the process is the root, so "a" and "/a" name the same node.
\* ------------------------------------------------------------------------
\* the names of a path, empty names ("//", leading and trailing '/') dropped
RECURSIVE Split(_)
Split(s) ==
    IF s = <<>> THEN <<>>
    ELSE LET i == Find(s, 0)
         IN  IF i = Npos THEN <<s>>
             ELSE IF i = 0 THEN Split(SubSeq(s, 2, Len(s)))
             ELSE <<SubSeq(s, 1, i)>> \o Split(SubSeq(s, i + 2, Len(s)))

IsDir(n) == n = <<>> \/ n \in dirs

IsEntry(n) == IsDir(n) \/ n \in files

\* errno of walking the names before the last one, "OK" when all are
\* directories
WalkErrno(c) ==
    LET bad == {k \in 1..(Len(c) - 1) : ~IsDir(SubSeq(c, 1, k))}
    IN  IF bad = {} THEN "OK"
        ELSE IF SubSeq(c, 1, Lowest(bad)) \in files THEN "ENOTDIR"
        ELSE "ENOENT"

\* errno of stat(name, &buf)
Stat(s) ==
    LET c == Split(s)
    IN  IF s = <<>> THEN "ENOENT"
        ELSE IF WalkErrno(c) # "OK" THEN WalkErrno(c)
        ELSE IF ~IsEntry(c) THEN "ENOENT"
        ELSE IF c \in files /\ s[Len(s)] = "/" THEN "ENOTDIR"
        ELSE "OK"

\* errno of ::mkdir(name, 0700)
MkdirErrno(s) ==
    LET c == Split(s)
    IN  IF s = <<>> THEN "ENOENT"
        ELSE IF WalkErrno(c) # "OK" THEN WalkErrno(c)
        ELSE IF IsEntry(c) THEN "EEXIST"
        ELSE IF c \in denied THEN "EACCES"
        ELSE "OK"

\* exists(name), lines 193-210: "true", "false" or "throw"
exists(s) ==
    IF Stat(s) = "OK" THEN "true"
    ELSE IF Stat(s) = "ENOENT" THEN "false"
    ELSE "throw"

\* mkdir(name), lines 212-218
mkdir(s) == MkdirErrno(s) = "OK"

\* ------------------------------------------------------------------------
\* mkpath, lines 264-280
\* ------------------------------------------------------------------------
\* the arguments mkpath is called with
MkInputs == Str(MaxPathLen) \cup {StrABC}

\* the trees mkpath is called on: nothing, or one chain of directories that
\* ends in a directory or in a regular file
Names == {<<"a">>, <<"b">>}

InitNodes == UNION {[1..k -> Names] : k \in 1..FsDepth}

Ancestors(n) == {SubSeq(n, 1, k) : k \in 1..(Len(n) - 1)}

InitTrees ==
    {[dirs |-> {}, files |-> {}]}
        \cup {[dirs |-> Ancestors(n) \cup {n}, files |-> {}] : n \in InitNodes}
        \cup {[dirs |-> Ancestors(n), files |-> {n}] : n \in InitNodes}

\* the directories the kernel refuses to create
DeniedChoices == {{}, {<< <<"a">> >>}, {<< <<"a">>, <<"b">> >>}}

MkInit ==
    /\ LockInit
    /\ DelIdle
    /\ NmIdle
    /\ \E t \in InitTrees :
         /\ dirs = t.dirs /\ files = t.files
         /\ fs0 = t
    /\ denied \in DeniedChoices
    /\ noread = {}
    /\ mkArg \in MkInputs
    /\ pos = 0
    /\ mkPc = "loop"
    /\ mkRes = "none"
    /\ mkLog = <<>>

\* path.rfind('/')
IterSlashLast ==
    LET hits == {i \in pos..(Len(mkArg) - 1) : mkArg[i + 1] = "/"}
    IN  IF hits = {} THEN Npos ELSE CHOOSE i \in hits : \A j \in hits : j <= i

\* line 270: slash = path.find('/', pos)
IterSlash == Find(mkArg, pos)

\* line 271: pos = slash == npos ? path.length() : slash
IterPos == IF IterSlash = Npos THEN Len(mkArg) ELSE IterSlash

\* line 272: path.substr(0, pos)
IterPrefix == Substr(mkArg, IterPos)

Called(f, name, ret) == [call |-> f, name |-> name, ret |-> ret]

InLoop == mkPc = "loop" /\ pos < Len(mkArg)

\* lines 268-276: the prefix exists, next iteration
MkpathPrefixExists ==
    /\ InLoop
    /\ exists(IterPrefix) = "true"
    /\ mkLog' = Append(mkLog, Called("exists", IterPrefix, "true"))
    /\ pos' = IterPos + 1
    /\ UNCHANGED <<lockVars, delVars, nmVars, fsVars, mkArg, mkPc, mkRes>>

\* lines 268-276: the prefix does not exist and mkdir creates it
MkpathPrefixCreated ==
    /\ InLoop
    /\ exists(IterPrefix) = "false"
    /\ mkdir(IterPrefix)
    /\ dirs' = dirs \cup {Split(IterPrefix)}
    /\ mkLog' = mkLog \o <<Called("exists", IterPrefix, "false"),
                           Called("mkdir", IterPrefix, "true")>>
    /\ pos' = IterPos + 1
    /\ UNCHANGED <<lockVars, delVars, nmVars, files, denied, noread, fs0, mkArg, mkPc,
                   mkRes>>

MkpathIgnoresFailure ==
    /\ InLoop
    /\ exists(IterPrefix) = "false"
    /\ ~mkdir(IterPrefix)
    /\ mkLog' = mkLog \o <<Called("exists", IterPrefix, "false"),
                           Called("mkdir", IterPrefix, "false")>>
    /\ pos' = IterPos + 1
    /\ UNCHANGED <<lockVars, delVars, nmVars, fsVars, mkArg, mkPc, mkRes>>

\* lines 272-275: the prefix does not exist and mkdir fails: return false
MkpathReturnFalse ==
    /\ InLoop
    /\ exists(IterPrefix) = "false"
    /\ ~mkdir(IterPrefix)
    /\ mkLog' = mkLog \o <<Called("exists", IterPrefix, "false"),
                           Called("mkdir", IterPrefix, "false")>>
    /\ mkPc' = "done"
    /\ mkRes' = "false"
    /\ UNCHANGED <<lockVars, delVars, nmVars, fsVars, mkArg, pos>>

\* line 272 with lines 203-207: exists throws, mkpath does not catch
MkpathExistsThrows ==
    /\ InLoop
    /\ exists(IterPrefix) = "throw"
    /\ mkLog' = Append(mkLog, Called("exists", IterPrefix, "throw"))
    /\ mkPc' = "done"
    /\ mkRes' = "throw"
    /\ UNCHANGED <<lockVars, delVars, nmVars, fsVars, mkArg, pos>>

\* lines 268 and 279: the loop is over, return true
MkpathReturnTrue ==
    /\ mkPc = "loop"
    /\ ~(pos < Len(mkArg))
    /\ mkPc' = "done"
    /\ mkRes' = "true"
    /\ UNCHANGED <<lockVars, delVars, nmVars, fsVars, mkArg, pos, mkLog>>

\* mkpath has returned true and the caller calls it again with the same path
MkpathCallAgain ==
    /\ mkPc = "done"
    /\ mkRes = "true"
    /\ fs0' = [dirs |-> dirs, files |-> files]
    /\ pos' = 0
    /\ mkPc' = "loop"
    /\ mkRes' = "none"
    /\ mkLog' = <<>>
    /\ UNCHANGED <<lockVars, delVars, nmVars, dirs, files, denied, noread, mkArg>>

MkNext ==
    \/ MkpathCallAgain
    \/ MkpathPrefixExists
    \/ MkpathPrefixCreated
    \/ MkpathReturnFalse
    \/ MkpathExistsThrows
    \/ MkpathReturnTrue

SpecMkpath == MkInit /\ [][MkNext]_vars

\* ------------------------------------------------------------------------
\* deltree, lines 220-248: nftw(d, callback, FOPEN_MAX, FTW_DEPTH)
\* ------------------------------------------------------------------------
MaxNodes == 4
DelArgLen == 2

\* the arguments deltree is called with
DelInputs == Str(DelArgLen) \cup {Substr(StrABC, 3)}

\* the places where a tree can grow by one entry
Slots(t) ==
    ({<<n>> : n \in Names} \cup {Append(d, n) : d \in t.dirs, n \in Names})
        \ (t.dirs \cup t.files)

\* the trees of at most k entries
RECURSIVE TreesUpTo(_)
TreesUpTo(k) ==
    IF k = 0 THEN {[dirs |-> {}, files |-> {}]}
    ELSE LET T == TreesUpTo(k - 1)
         IN  T \cup UNION {{[dirs |-> t.dirs \cup {c}, files |-> t.files]
                                : c \in Slots(t)} : t \in T}
               \cup UNION {{[dirs |-> t.dirs, files |-> t.files \cup {c}]
                                : c \in Slots(t)} : t \in T}

DelInit ==
    /\ LockInit
    /\ MkIdle
    /\ NmIdle
    /\ \E t \in TreesUpTo(MaxNodes) :
         /\ dirs = t.dirs /\ files = t.files
         /\ fs0 = t
         /\ noread \in {{}} \cup {{d} : d \in t.dirs}
    /\ denied = {}
    /\ delArg \in DelInputs
    /\ delPc = "call"
    /\ walk = <<>>
    /\ rmLog = <<>>
    /\ delRes = "none"

\* the entries of directory n
Children(n) ==
    {c \in dirs \cup files : Len(c) = Len(n) + 1 /\ SubSeq(c, 1, Len(n)) = n}

\* without FTW_DEPTH: a directory is reported before what is in it
DirReadyAtOnce(n) == TRUE

\* FTW_DEPTH: a directory is reported after everything in it; a directory
\* that cannot be read is reported without a visit to what is in it
DirReady(n) == n \in noread \/ Children(n) = {}

\* the flag nftw passes for an entry: FTW_DP for a directory it has read,
\* FTW_DNR for a directory it cannot read, FTW_F for a file
NftwFlag(n) ==
    IF ~IsDir(n) THEN "FTW_F"
    ELSE IF n \in noread THEN "FTW_DNR"
    ELSE "FTW_DP"

\* callback, lines 224-237: the call made for a flag
CallbackCall(flag) == IF flag = "FTW_DP" THEN "rmdir" ELSE "remove"

\* whether rmdir(name) or std::remove(name) returns 0: both remove an empty
\* directory, std::remove alone removes a file; granted is the kernel's say
\* (permissions, busy entries)
RemovalOk(call, n, granted) ==
    /\ granted
    /\ n # <<>>
    /\ \/ n \in dirs /\ Children(n) = {}
       \/ n \in files /\ call = "remove"

Removed(call, n, ok) == [call |-> call, node |-> n, ok |-> ok]

\* the callback on entry n: the call is made and logged; the entry goes when
\* the call succeeds, and the callback throws when it fails
Callback(n, granted) ==
    LET call == CallbackCall(NftwFlag(n))
        ok == RemovalOk(call, n, granted)
    IN  /\ rmLog' = Append(rmLog, Removed(call, n, ok))
        /\ dirs' = IF ok THEN dirs \ {n} ELSE dirs
        /\ files' = IF ok THEN files \ {n} ELSE files
        /\ UNCHANGED <<denied, noread, fs0>>

\* the callback returns 0 whether or not the removal worked
DelCarryOn ==
    /\ delPc' = delPc
    /\ delRes' = delRes

\* lines 228, 235 and 246: the exception leaves nftw and deltree
DelThrow ==
    /\ delPc' = "done"
    /\ delRes' = "throw"

\* line 244-247: nftw cannot stat d and returns -1
DeltreeNftwFails ==
    /\ delPc = "call"
    /\ Stat(delArg) # "OK"
    /\ DelThrow
    /\ UNCHANGED <<lockVars, fsVars, mkVars, nmVars, delArg, walk, rmLog>>

\* nftw starts reading the directory d
DeltreeOpenRoot ==
    /\ delPc = "call"
    /\ Stat(delArg) = "OK"
    /\ IsDir(Split(delArg))
    /\ walk' = <<Split(delArg)>>
    /\ delPc' = "walk"
    /\ UNCHANGED <<lockVars, fsVars, mkVars, nmVars, delArg, rmLog, delRes>>

\* d is not a directory: the callback is called on d itself
DeltreeRootIsFile ==
    /\ delPc = "call"
    /\ Stat(delArg) = "OK"
    /\ ~IsDir(Split(delArg))
    /\ \E granted \in BOOLEAN :
         /\ Callback(Split(delArg), granted)
         /\ delPc' = "done"
         /\ delRes' = IF RemovalOk(CallbackCall(NftwFlag(Split(delArg))),
                                   Split(delArg), granted)
                      THEN "void" ELSE "throw"
    /\ UNCHANGED <<lockVars, mkVars, nmVars, delArg, walk>>

Top == walk[Len(walk)]

\* nftw enters a subdirectory
DeltreeDescend ==
    /\ delPc = "walk"
    /\ ~DirReady(Top)
    /\ \E c \in Children(Top) :
         /\ c \in dirs
         /\ walk' = Append(walk, c)
    /\ UNCHANGED <<lockVars, fsVars, mkVars, nmVars, delArg, delPc, rmLog, delRes>>

\* nftw reports an entry that is not a directory
DeltreeFile ==
    /\ delPc = "walk"
    /\ ~DirReady(Top)
    /\ \E c \in Children(Top) : \E granted \in BOOLEAN :
         /\ c \in files
         /\ Callback(c, granted)
         /\ IF RemovalOk(CallbackCall(NftwFlag(c)), c, granted)
            THEN UNCHANGED <<delPc, delRes>>
            ELSE DelThrow
    /\ UNCHANGED <<lockVars, mkVars, nmVars, delArg, walk>>

\* nftw reports the directory it has finished reading; after d itself nftw
\* returns 0 and deltree returns
DeltreeDir ==
    /\ delPc = "walk"
    /\ DirReady(Top)
    /\ \E granted \in BOOLEAN :
         /\ Callback(Top, granted)
         /\ IF RemovalOk(CallbackCall(NftwFlag(Top)), Top, granted)
            THEN /\ walk' = SubSeq(walk, 1, Len(walk) - 1)
                 /\ delPc' = IF Len(walk) = 1 THEN "done" ELSE "walk"
                 /\ delRes' = IF Len(walk) = 1 THEN "void" ELSE delRes
            ELSE /\ DelThrow
                 /\ UNCHANGED walk
    /\ UNCHANGED <<lockVars, mkVars, nmVars, delArg>>

DelNext ==
    \/ DeltreeNftwFails
    \/ DeltreeOpenRoot
    \/ DeltreeRootIsFile
    \/ DeltreeDescend
    \/ DeltreeFile
    \/ DeltreeDir

SpecDeltree == DelInit /\ [][DelNext]_vars

\* ------------------------------------------------------------------------
\* The naming functions, lines 282-317
\* A uint32_t is the pair <<hi, lo>> of its 16-bit halves.
\* ------------------------------------------------------------------------
MaxSmallId == 20
MaxHexLen == 7

Half == 65536

U32(hi, lo) == <<hi % Half, lo % Half>>

\* n / 16 and n % 16 on a uint32_t
Div16(n) == <<n[1] \div 16, (n[1] % 16) * 4096 + n[2] \div 16>>

Mod16(n) == n[2] % 16

\* n * 16 + d in uint32_t arithmetic
Mul16Add(n, d) == U32(n[1] * 16 + n[2] \div 4096, (n[2] % 4096) * 16 + d)

LowerDigits ==
    <<"0", "1", "2", "3", "4", "5", "6", "7", "8", "9",
      "a", "b", "c", "d", "e", "f">>

UpperDigits ==
    <<"0", "1", "2", "3", "4", "5", "6", "7", "8", "9",
      "A", "B", "C", "D", "E", "F">>

\* presentation type 'x'
HexDigit(d) == LowerDigits[d + 1]

\* the digits of n in base 16, most significant first, no leading zero
RECURSIVE FormatX(_)
FormatX(n) ==
    IF Div16(n) = <<0, 0>> THEN <<HexDigit(Mod16(n))>>
    ELSE Append(FormatX(Div16(n)), HexDigit(Mod16(n)))

\* format spec "{:8x}": padding with spaces
SpacePad(str, w) ==
    IF Len(str) >= w THEN str ELSE [i \in 1..(w - Len(str)) |-> " "] \o str

\* format spec "{:08x}": width w, '0' fill on the left
ZeroPad(str, w) ==
    IF Len(str) >= w THEN str ELSE [i \in 1..(w - Len(str)) |-> "0"] \o str

\* hexStr, lines 282-286: fmt::format("{:08x}", checkpointNum)
hexStr(checkpointNum) == ZeroPad(FormatX(checkpointNum), 8)

\* [[:xdigit:]]
IsXDigit(c) ==
    \E d \in 1..16 : c = LowerDigits[d] \/ c = UpperDigits[d]

\* '.' of an ECMAScript regular expression matches any character that is not
\* a line terminator
LineTerminators == {"\n", "\r"}

DotMatches(c) == c \notin LineTerminators

\* line 293: std::regex_match(hexStr, sm, rx) with rx, line 291,
\* ([[:xdigit:]]{2})([[:xdigit:]]{2})([[:xdigit:]]{2}).*
RegexMatch(h) ==
    /\ Len(h) >= 6
    /\ \A i \in 1..6 : IsXDigit(h[i])
    /\ \A i \in 7..Len(h) : DotMatches(h[i])

\* std::string(sm[k]): the k-th group, empty when nothing was matched
SubMatch(h, k) ==
    IF RegexMatch(h) THEN SubSeq(h, 2 * k - 1, 2 * k) ELSE <<>>

\* the process has been killed by a failed assert
Aborted == <<"SIGABRT">>

Slash == <<"/">>

\* line 294: assert(matched) stops the process unless NDEBUG is defined
AssertFails(matched, nd) == ~matched /\ ~nd

\* hexDir, lines 288-297
hexDir(h, nd) ==
    IF AssertFails(RegexMatch(h), nd) THEN Aborted
    ELSE SubMatch(h, 1) \o Slash \o SubMatch(h, 2) \o Slash \o SubMatch(h, 3)

\* baseName, lines 299-304
baseName(type, h, suffix) == type \o <<"-">> \o h \o <<".">> \o suffix

\* remoteDir, lines 306-310
remoteDir(type, h, nd) ==
    IF hexDir(h, nd) = Aborted THEN Aborted
    ELSE type \o Slash \o hexDir(h, nd)

\* remoteName, lines 312-317
remoteName(type, h, suffix, nd) ==
    IF remoteDir(type, h, nd) = Aborted THEN Aborted
    ELSE remoteDir(type, h, nd) \o Slash \o baseName(type, h, suffix)

\* the checkpoint numbers hexStr is called with: both halves range over the
\* small numbers and over the values where a hex digit is gained or lost
SampleHalves ==
    (0..MaxSmallId) \cup {255, 256, 4095, 4096, 6699, 15437, 32767, 32768, 65535}

IdInputs == SampleHalves \X SampleHalves

StrOf(A, n) == UNION {[1..k -> A] : k \in 0..n}

\* the strings hexDir is called with: what hexStr returns, and strings of a
\* hex digit, a letter that is no hex digit and a line feed
HexAlphabet == {"a", "g", "\n"}

HexInputs ==
    StrOf(HexAlphabet, MaxHexLen)
        \cup {hexStr(<<hi, lo>>) : hi, lo \in {0, 6699, 15437, 65535}}
        \cup {<<"A", "B", "C", "D", "E", "F">>}

Ledger == <<"l", "e", "d", "g", "e", "r">>

Xdr == <<"x", "d", "r">>

Types == {<<>>, Ledger}

Suffixes == {<<>>, Xdr}

NmInit ==
    /\ LockInit /\ FsIdle /\ MkIdle /\ DelIdle
    /\ ndebug \in BOOLEAN
    /\ nmPc = "call"
    /\ nmOut = <<>>
    /\ nmFn \in {"hexStr", "hexDir", "baseName", "remoteDir", "remoteName"}
    /\ nmId \in (IF nmFn = "hexStr" THEN IdInputs ELSE {<<0, 0>>})
    /\ nmHex \in (IF nmFn = "hexStr" THEN {<<>>} ELSE HexInputs)
    /\ nmType \in (IF nmFn \in {"hexStr", "hexDir"} THEN {<<>>} ELSE Types)
    /\ nmSuffix \in (IF nmFn \in {"baseName", "remoteName"} THEN Suffixes
                     ELSE {<<>>})

NmReturn(out) ==
    /\ nmPc = "call"
    /\ nmOut' = out
    /\ nmPc' = "done"
    /\ UNCHANGED <<lockVars, fsVars, mkVars, delVars>>
    /\ UNCHANGED <<ndebug, nmFn, nmId, nmType, nmHex, nmSuffix>>

HexStrCall ==
    /\ nmFn = "hexStr"
    /\ NmReturn(hexStr(nmId))

HexDirCall ==
    /\ nmFn = "hexDir"
    /\ NmReturn(hexDir(nmHex, ndebug))

BaseNameCall ==
    /\ nmFn = "baseName"
    /\ NmReturn(baseName(nmType, nmHex, nmSuffix))

RemoteDirCall ==
    /\ nmFn = "remoteDir"
    /\ NmReturn(remoteDir(nmType, nmHex, ndebug))

RemoteNameCall ==
    /\ nmFn = "remoteName"
    /\ NmReturn(remoteName(nmType, nmHex, nmSuffix, ndebug))

NmNext ==
    \/ HexStrCall
    \/ HexDirCall
    \/ BaseNameCall
    \/ RemoteDirCall
    \/ RemoteNameCall

SpecNames == NmInit /\ [][NmNext]_vars

\* ------------------------------------------------------------------------
\* Properties of the lock registry (checked under Spec)
\* ------------------------------------------------------------------------
\* p has just left the body of a call of f (the step returns or throws)
Leaves(p, f) == pc[p] \in {"entry", "flock"} /\ op[p] = f /\ pc'[p] = "ret"

\* a process that has path in its lock table
Holders(path) == {q \in Procs : path \in Keys(lockMap[q])}

C1_TableMatchesHistory ==
    \A p \in Procs :
        /\ \A e1, e2 \in lockMap[p] : e1[1] = e2[1] => e1 = e2
        /\ Keys(lockMap[p]) = held[p]

C1_FailedCallKeepsTable ==
    \A p \in Procs :
        (pc[p] # "ret" /\ pc'[p] = "ret" /\ res'[p] \in {"false", "throw"})
            => lockMap'[p] = lockMap[p]

\* C1: in every state the lock table of a process has at most one entry per
\* path, and its keys are exactly the paths whose most recent successful
\* lockFile has not been followed by a successful unlockFile; a lockFile that
\* returns false or throws and an unlockFile that throws leave the table as
\* it was.
C1_LockTable == []C1_TableMatchesHistory /\ [][C1_FailedCallKeepsTable]_vars

\* C1 witness: a process holds two entries while another one has just been
\* refused a lock.
C1_Witness ==
    \E p, q \in Procs :
        /\ Cardinality(lockMap[p]) = 2
        /\ pc[q] = "ret" /\ op[q] = "lockFile" /\ res[q] = "false"
        /\ lockMap[q] = {}

\* C2: no two processes have the same path in their lock tables, and every
\* entry's descriptor is open on the one file ever created at the path, which
\* is the file the path still names.
C2_MutualExclusion ==
    /\ \A path \in Paths : Cardinality(Holders(path)) <= 1
    /\ \A p \in Procs : \A e \in lockMap[p] :
          /\ fdtab[p][e[2]] = dirent[e[1]]
          /\ dirent[e[1]] = <<e[1], 1>>

\* C2 witness: one process holds the path and another one, having opened the
\* same file, was denied the lock.
C2_Witness ==
    \E p, q \in Procs : \E path \in Paths :
        /\ p # q
        /\ path \in Keys(lockMap[p])
        /\ pc[q] = "ret" /\ op[q] = "lockFile" /\ arg[q] = path
        /\ r[q] = "-1" /\ res[q] = "false"

\* C3: lockFile(P) called while P is a key of the caller's table throws, and
\* the step opens no file: the table, the descriptors, the locks and the
\* directory are unchanged.
C3_DoubleLockThrows ==
    [][\A p \in Procs :
          (Leaves(p, "lockFile") /\ pc[p] = "entry"
              /\ arg[p] \in Keys(lockMap[p]))
          => /\ res'[p] = "throw"
             /\ lockMap' = lockMap /\ fdtab' = fdtab
             /\ flockOwner' = flockOwner /\ dirent' = dirent]_vars

\* C3 witness: a lockFile of a path the process holds has thrown, and the
\* entry is still there.
C3_Witness ==
    \E p \in Procs :
        /\ pc[p] = "ret" /\ op[p] = "lockFile" /\ res[p] = "throw"
        /\ arg[p] \in Keys(lockMap[p])
        /\ fdtab[p][MapGet(lockMap[p], arg[p])] # NoIno

\* C4: unlockFile(P) called while P is not a key of the caller's table
\* throws, closes no descriptor, releases no lock and leaves the table
\* unchanged.
C4_UnlockNotLockedThrows ==
    [][\A p \in Procs :
          (Leaves(p, "unlockFile") /\ arg[p] \notin Keys(lockMap[p]))
          => /\ res'[p] = "throw"
             /\ lockMap' = lockMap /\ fdtab' = fdtab
             /\ flockOwner' = flockOwner]_vars

\* C4 witness: the second of two unlockFile(P) in a row, the first of which
\* succeeded, has thrown.
C4_Witness ==
    \E p \in Procs :
        /\ pc[p] = "ret" /\ op[p] = "unlockFile" /\ res[p] = "throw"
        /\ again[p]

\* C5 as stated: lockFile(P) returns true whenever P is not in the caller's
\* table and no process holds P.
C5_Original ==
    [][\A p \in Procs :
          (Leaves(p, "lockFile") /\ arg[p] \notin Keys(lockMap[p])
              /\ Holders(arg[p]) = {})
          => res'[p] = "true"]_vars

\* C5 (amended): a successful unlockFile(P) leaves no lock on the file of P,
\* and a lockFile(P) whose open was not refused returns true and records P
\* whenever no process holds P at the lock attempt.
C5_ReleaseFreesLock ==
    [][\A p \in Procs :
          /\ (Leaves(p, "unlockFile") /\ res'[p] = "void")
                => flockOwner'[dirent'[arg[p]]] = NoOwner
          /\ (Leaves(p, "lockFile") /\ pc[p] = "flock"
                  /\ Holders(arg[p]) = {})
                => /\ res'[p] = "true"
                   /\ arg[p] \in Keys(lockMap'[p])]_vars

\* C5 witness: lockFile(P) has returned true right after the same process
\* released P.
C5_Witness ==
    \E p \in Procs :
        /\ pc[p] = "ret" /\ op[p] = "lockFile" /\ res[p] = "true"
        /\ again[p]
        /\ arg[p] \in Keys(lockMap[p])

\* C6: a lockFile(P) with P not in the caller's table returns false, without
\* throwing and without recording P, when the open fails or when another open
\* file description holds the lock on the file.
C6_DeniedReturnsFalse ==
    [][\A p \in Procs :
          /\ (Leaves(p, "lockFile") /\ pc[p] = "entry"
                  /\ arg[p] \notin Keys(lockMap[p]))
                => /\ res'[p] = "false"
                   /\ lockMap' = lockMap
          /\ (pc[p] = "flock" /\ pc'[p] # "flock"
                  /\ flockOwner[fdtab[p][fd[p]]] \notin {NoOwner, <<p, fd[p]>>})
                => /\ pc'[p] = "ret" /\ res'[p] = "false"
                   /\ lockMap' = lockMap]_vars

\* C6 witness: lockFile(P) has returned false because another process holds
\* the lock on P, and P is not in the caller's table.
C6_Witness ==
    \E p, q \in Procs :
        /\ p # q
        /\ pc[p] = "ret" /\ op[p] = "lockFile" /\ res[p] = "false"
        /\ r[p] = "-1"
        /\ arg[p] \in Keys(lockMap[q])
        /\ arg[p] \notin Keys(lockMap[p])

\* a path whose last lockFile succeeded, or whose last unlockFile did, names
\* a file
LockedFileExists ==
    \A p \in Procs :
        (pc[p] = "ret" /\ res[p] \in {"true", "void"}) \/ arg[p] \in held[p]
            => dirent[arg[p]] # NoIno

\* no step takes a file away: a path that names a file keeps naming it
NoFileRemoved ==
    \A path \in Paths : dirent[path] # NoIno => dirent'[path] = dirent[path]

\* C11: no sequence of lockFile and unlockFile calls removes a file: the file
\* of a successful lockFile(P) exists, it still exists after the matching
\* unlockFile(P), and no later step of any call removes it, so the set of
\* existing files only grows.
C11_NeverUnlinks == []LockedFileExists /\ [][NoFileRemoved]_vars

\* C11 witness: a process has locked a path again right after it unlocked it,
\* and the file is the one created by the first lockFile.
C11_Witness ==
    \E p \in Procs :
        /\ pc[p] = "ret" /\ op[p] = "lockFile" /\ res[p] = "true"
        /\ again[p]
        /\ dirent[arg[p]] = <<arg[p], 1>>

\* a process inside lockFile can always take its next step
NeverBlocked ==
    \A p \in Procs :
        /\ (pc[p] = "entry" /\ op[p] = "lockFile")
              => ENABLED (LockFileAlreadyLocked(p) \/ LockFileOpen(p))
        /\ pc[p] = "flock" => ENABLED LockFileFlock(p)

OpenFds(p) == {f \in Fds : fdtab[p][f] # NoIno}

\* a call of lockFile opens at most once, as its first step, attempts the lock
\* at most once, as its last step, and never goes back
StraightLine ==
    \A p \in Procs :
        /\ (\E f \in Fds : fdtab[p][f] = NoIno /\ fdtab'[p][f] # NoIno)
              => pc[p] = "entry" /\ pc'[p] = "flock"
        /\ r'[p] \notin {r[p], "unset"}
              => pc[p] = "flock" /\ pc'[p] = "ret"
        /\ pc[p] = "flock" => pc'[p] \in {"flock", "ret"}
        /\ (pc[p] = "entry" /\ op[p] = "lockFile")
              => pc'[p] \in {"entry", "flock", "ret"}
        /\ (pc[p] = "flock" /\ pc'[p] = "flock")
              => /\ fdtab'[p] = fdtab[p] /\ r'[p] = r[p]
                 /\ lockMap'[p] = lockMap[p]

\* C14: lockFile never waits: in every interleaving a process inside lockFile
\* has a step to take, whoever holds the lock, and the call is over after at
\* most one open and one lock attempt.
C14_NeverWaits == []NeverBlocked /\ [][StraightLine]_vars

\* C14 witness: lockFile has returned false after one denied lock attempt
\* while another process, back from its own lockFile, holds the lock.
C14_Witness ==
    \E p, q \in Procs :
        /\ p # q
        /\ pc[p] = "ret" /\ op[p] = "lockFile" /\ res[p] = "false"
        /\ r[p] = "-1"
        /\ pc[q] = "ret" /\ op[q] = "lockFile" /\ res[q] = "true"
        /\ arg[q] = arg[p]
        /\ OpenFds(p) = {MapGet(lockMap[p], k) : k \in Keys(lockMap[p])}

\* the descriptors stored in the lock table of p
Handles(p) == {e[2] : e \in lockMap[p]}

\* C18: no lock handle leaks: outside the body of lockFile the descriptors a
\* process has open are exactly the handles in its lock table, one descriptor
\* per entry; inside lockFile, between open and flock, the only other open
\* descriptor is the local fd; and a lockFile that has returned false after a
\* denied lock attempt has closed the descriptor it opened.
C18_NoHandleLeak ==
    \A p \in Procs :
        /\ Cardinality(Handles(p)) = Cardinality(lockMap[p])
        /\ Cardinality(Keys(lockMap[p])) = Cardinality(lockMap[p])
        /\ pc[p] # "flock" => OpenFds(p) = Handles(p)
        /\ pc[p] = "flock"
              => /\ OpenFds(p) = Handles(p) \cup {fd[p]}
                 /\ fd[p] \notin Handles(p)
        /\ (pc[p] = "ret" /\ op[p] = "lockFile" /\ res[p] = "false")
              => fd[p] = NoFd

\* C18 witness: a process that holds one lock has been denied another and is
\* back from lockFile with one descriptor open, the handle of the lock it
\* holds.
C18_Witness ==
    \E p \in Procs :
        /\ pc[p] = "ret" /\ op[p] = "lockFile" /\ res[p] = "false"
        /\ r[p] = "-1"
        /\ Cardinality(lockMap[p]) = 1
        /\ Cardinality(OpenFds(p)) = 1

\* ------------------------------------------------------------------------
\* Properties of mkpath (checked under SpecMkpath)
\* ------------------------------------------------------------------------
\* where the prefixes of a path end: at each '/', and at the end of a path
\* that does not end in '/'
CutPoints(s) ==
    {i \in 0..(Len(s) - 1) : s[i + 1] = "/"}
        \cup (IF s # <<>> /\ s[Len(s)] # "/" THEN {Len(s)} ELSE {})

\* the prefixes of a path, shortest first
Prefixes(s) ==
    LET cs == CutPoints(s)
        nth(k) == CHOOSE c \in cs : Cardinality({d \in cs : d < c}) = k - 1
    IN  [k \in 1..Cardinality(cs) |-> Substr(s, nth(k))]

\* the directories "mkdir -p path" has to provide, parents first
PrefixNodes(s) == [k \in 1..Len(Split(s)) |-> SubSeq(Split(s), 1, k)]

ExistsCalls == SelectSeq(mkLog, LAMBDA c : c.call = "exists")

MkdirCalls == SelectSeq(mkLog, LAMBDA c : c.call = "mkdir")

Created == {Split(MkdirCalls[i].name) :
                i \in {j \in 1..Len(MkdirCalls) : MkdirCalls[j].ret = "true"}}

\* every directory of the path either was there when mkpath was called (the
\* last one may be any entry unless the path ends in '/') or is one the
\* kernel lets mkdir create
Providable(s) ==
    LET ns == PrefixNodes(s)
    IN  \A k \in 1..Len(ns) :
            \/ ns[k] \in fs0.dirs
            \/ k = Len(ns) /\ ns[k] \in fs0.files /\ s[Len(s)] # "/"
            \/ ns[k] \notin fs0.dirs \cup fs0.files \cup denied

\* C7 as stated: mkpath returns true whenever every directory of the path
\* exists or can be created, and when it returns true every directory of the
\* path exists.
C7_MkdirP ==
    mkPc = "done" =>
        /\ Providable(mkArg) => mkRes = "true"
        /\ mkRes = "true" =>
              \A k \in 1..Len(PrefixNodes(mkArg)) : IsEntry(PrefixNodes(mkArg)[k])

\* C7 holds of the paths that do not start with '/'.
C7_RelativePaths ==
    (mkArg # <<>> /\ mkArg[1] = "/") \/ C7_MkdirP

\* C8: exists is called on the prefixes of the path from the shortest on,
\* each once and none skipped; mkdir is called only right after exists has
\* answered false for the same prefix; a true result means that every prefix
\* was examined; and mkpath("a/b/c") on a tree that holds none of them and
\* refuses none creates a, a/b and a/b/c in this order and returns true.
C8_LeftToRight ==
    LET P == Prefixes(mkArg)
    IN  /\ Len(ExistsCalls) <= Len(P)
        /\ \A i \in 1..Len(ExistsCalls) : ExistsCalls[i].name = P[i]
        /\ \A j \in 1..Len(mkLog) :
              mkLog[j].call = "mkdir" =>
                  /\ j > 1
                  /\ mkLog[j - 1] = Called("exists", mkLog[j].name, "false")
        /\ mkRes = "true" => Len(ExistsCalls) = Len(P)
        /\ (mkPc = "done" /\ mkArg = StrABC /\ fs0.dirs = {} /\ fs0.files = {}
                /\ denied = {})
              => /\ mkRes = "true"
                 /\ mkLog = <<Called("exists", P[1], "false"),
                              Called("mkdir", P[1], "true"),
                              Called("exists", P[2], "false"),
                              Called("mkdir", P[2], "true"),
                              Called("exists", P[3], "false"),
                              Called("mkdir", P[3], "true")>>
                 /\ P = <<Substr(StrABC, 1), Substr(StrABC, 3), StrABC>>

\* C8 witness: mkpath("a/b/c") on the empty tree has returned true and the
\* three directories exist.
C8_Witness ==
    /\ mkPc = "done" /\ mkRes = "true"
    /\ mkArg = StrABC
    /\ fs0.dirs = {} /\ fs0.files = {}
    /\ dirs = {<< <<"a">> >>, << <<"a">>, <<"b">> >>,
               << <<"a">>, <<"b">>, <<"c">> >>}

\* mkpath has stopped at the first prefix that does not exist: the prefixes
\* before it exist, no call was made for a longer prefix, no call was made
\* twice, and the tree is the initial one plus the directories created for
\* the shorter prefixes.
StoppedAtFirstMissing ==
    LET P == Prefixes(mkArg)
        m == Len(ExistsCalls)
    IN  /\ m >= 1 /\ m <= Len(P)
        /\ \A i \in 1..m : ExistsCalls[i].name = P[i]
        /\ \A i \in 1..(m - 1) : Stat(P[i]) = "OK"
        /\ Stat(P[m]) # "OK"
        /\ mkLog[Len(mkLog)].name = P[m]
        /\ \A i, j \in 1..Len(mkLog) :
              (mkLog[i].call = mkLog[j].call /\ mkLog[i].name = mkLog[j].name)
                  => i = j
        /\ dirs = fs0.dirs \cup Created
        /\ files = fs0.files
        /\ \A i \in 1..Len(MkdirCalls) :
              \E k \in 1..m : MkdirCalls[i].name = P[k]

SomePrefixMissing ==
    \E i \in 1..Len(Prefixes(mkArg)) : Stat(Prefixes(mkArg)[i]) # "OK"

\* C9 as stated: when some prefix neither exists nor can be created, mkpath
\* returns false at the first such prefix and stops.
C9_Original ==
    (mkPc = "done" /\ SomePrefixMissing)
        => mkRes = "false" /\ StoppedAtFirstMissing

\* C9 (amended): when some prefix neither exists nor can be created, mkpath
\* stops at the first such prefix: it returns false when exists answered false
\* and mkdir failed, and it lets the error of exists through when stat failed
\* with an error other than ENOENT.
C9_StopsAtFirstFailure ==
    (mkPc = "done" /\ SomePrefixMissing)
        => /\ StoppedAtFirstMissing
           /\ LET last == mkLog[Len(mkLog)]
              IN  \/ /\ mkRes = "false"
                     /\ last.call = "mkdir" /\ last.ret = "false"
                  \/ /\ mkRes = "throw"
                     /\ last.call = "exists" /\ last.ret = "throw"
                     /\ Stat(last.name) \notin {"OK", "ENOENT"}

\* C9 witness: mkpath has returned false after creating a directory, with a
\* longer prefix left unexamined.
C9_Witness ==
    /\ mkPc = "done" /\ mkRes = "false"
    /\ Created # {}
    /\ Len(ExistsCalls) < Len(Prefixes(mkArg))

\* every directory of the path was there when mkpath was called
AllPrefixesExisted ==
    \A k \in 1..Len(PrefixNodes(mkArg)) : PrefixNodes(mkArg)[k] \in fs0.dirs

\* C15 as stated: when every prefix directory of the path exists already,
\* mkpath returns true, calls mkdir on nothing and leaves the tree as it was.
C15_Idempotent ==
    (mkPc = "done" /\ AllPrefixesExisted)
        => /\ mkRes = "true"
           /\ MkdirCalls = <<>>
           /\ dirs = fs0.dirs /\ files = fs0.files

\* C15 holds of the paths that do not start with '/'.
C15_RelativePaths ==
    (mkArg # <<>> /\ mkArg[1] = "/") \/ C15_Idempotent

\* a second mkpath of "a/b/c" has returned, the first one having created the
\* three directories
SecondCallDone ==
    /\ mkPc = "done" /\ mkArg = StrABC
    /\ fs0.dirs = {<< <<"a">> >>, << <<"a">>, <<"b">> >>,
                   << <<"a">>, <<"b">>, <<"c">> >>}
    /\ Len(ExistsCalls) = 3

\* ------------------------------------------------------------------------
\* Properties of deltree (checked under SpecDeltree)
\* ------------------------------------------------------------------------
\* x is strictly below d
Under(d, x) == Len(x) > Len(d) /\ SubSeq(x, 1, Len(d)) = d

Entries0 == fs0.dirs \cup fs0.files

WasDir(n) == n = <<>> \/ n \in fs0.dirs

\* an entry is removed only after everything that was below it
RemovedBottomUp ==
    \A i \in 1..Len(rmLog) : rmLog[i].ok =>
        \A x \in Entries0 :
            Under(rmLog[i].node, x)
                => \E j \in 1..(i - 1) : rmLog[j].node = x /\ rmLog[j].ok

\* after a normal return every call has succeeded, and d and all that was
\* below d no longer exist
NoResidue ==
    (delPc = "done" /\ delRes = "void")
        => /\ \A i \in 1..Len(rmLog) : rmLog[i].ok
           /\ \A x \in Entries0 \cup {Split(delArg)} :
                 (x = Split(delArg) \/ Under(Split(delArg), x))
                     => /\ ~IsEntry(x)
                        /\ \E i \in 1..Len(rmLog) : rmLog[i].node = x

\* C10 as stated: post-order removal without residue, every directory being
\* removed with rmdir and everything else with remove.
C10_Original ==
    /\ RemovedBottomUp
    /\ NoResidue
    /\ \A i \in 1..Len(rmLog) : rmLog[i].ok =>
          rmLog[i].call = IF WasDir(rmLog[i].node) THEN "rmdir" ELSE "remove"

\* C10 (amended): post-order removal without residue; rmdir is called on the
\* directories nftw has read and on nothing else, and is called on a
\* directory only after everything that was below it has been removed;
\* remove is called on everything else, a directory that nftw could not
\* read included.
C10_PostOrder ==
    /\ RemovedBottomUp
    /\ NoResidue
    /\ \A i \in 1..Len(rmLog) :
          /\ rmLog[i].call =
                IF WasDir(rmLog[i].node) /\ rmLog[i].node \notin noread
                THEN "rmdir" ELSE "remove"
          /\ rmLog[i].call = "rmdir"
                => \A x \in Entries0 :
                      Under(rmLog[i].node, x)
                          => \E j \in 1..(i - 1) :
                                rmLog[j].node = x /\ rmLog[j].ok

\* C10 witness: deltree has returned normally from a directory that held a
\* file next to a subdirectory with a file in it.
C10_Witness ==
    /\ delPc = "done" /\ delRes = "void"
    /\ Split(delArg) \in fs0.dirs
    /\ \E x, y, z \in Entries0 :
          /\ x \in fs0.files /\ Len(x) = Len(Split(delArg)) + 1
          /\ y \in fs0.dirs /\ Under(Split(delArg), y)
          /\ z \in fs0.files /\ Under(y, z)
          /\ Under(Split(delArg), x)

\* ------------------------------------------------------------------------
\* Properties of the naming functions (checked under SpecNames)
\* ------------------------------------------------------------------------
IsLowerHex(c) == \E d \in 1..16 : c = LowerDigits[d]

DigitValue(c) ==
    (CHOOSE d \in 1..16 : c = LowerDigits[d] \/ c = UpperDigits[d]) - 1

\* the uint32_t a string of hex digits denotes
RECURSIVE ParseHex(_)
ParseHex(str) ==
    IF str = <<>> THEN <<0, 0>>
    ELSE Mul16Add(ParseHex(SubSeq(str, 1, Len(str) - 1)),
                  DigitValue(str[Len(str)]))

\* C12: for every 32-bit id, hexStr(id) has exactly 8 characters, each a
\* lowercase hexadecimal digit, reading it back as a hexadecimal number gives
\* id, and no other id has the same string.
C12_HexStrRoundTrip ==
    (nmPc = "done" /\ nmFn = "hexStr")
        => /\ Len(nmOut) = 8
           /\ \A i \in 1..Len(nmOut) : IsLowerHex(nmOut[i])
           /\ ParseHex(nmOut) = nmId
           /\ \A n \in IdInputs : hexStr(n) = nmOut => n = nmId

\* C12 witness: hexStr(0x00001a2b) has returned "00001a2b".
C12_Witness ==
    /\ nmPc = "done" /\ nmFn = "hexStr"
    /\ nmId = <<0, 6699>>
    /\ nmOut = <<"0", "0", "0", "0", "1", "a", "2", "b">>

\* h starts with at least 6 hexadecimal digits
StartsWith6Hex(h) == Len(h) >= 6 /\ \A i \in 1..6 : IsXDigit(h[i])

\* t + "/" + h[0:2] + "/" + h[2:4] + "/" + h[4:6]
ShardedDir(t, h) ==
    t \o <<"/">> \o SubSeq(h, 1, 2) \o <<"/">> \o SubSeq(h, 3, 4)
      \o <<"/">> \o SubSeq(h, 5, 6)

\* t + "-" + h + "." + s
FlatName(t, h, s) == t \o <<"-">> \o h \o <<".">> \o s

NamesAsStated ==
    /\ nmFn = "baseName" => nmOut = FlatName(nmType, nmHex, nmSuffix)
    /\ nmFn = "remoteDir" => nmOut = ShardedDir(nmType, nmHex)
    /\ nmFn = "remoteName" =>
          nmOut = ShardedDir(nmType, nmHex) \o <<"/">>
                    \o FlatName(nmType, nmHex, nmSuffix)

\* C13 as stated: for every type, every suffix and every h that starts with
\* at least 6 hexadecimal digits, remoteName(t, h, s) is remoteDir(t, h), "/"
\* and baseName(t, h, s), with remoteDir(t, h) = t/h[0:2]/h[2:4]/h[4:6] and
\* baseName(t, h, s) = t-h.s.
C13_Composition ==
    (nmPc = "done" /\ StartsWith6Hex(nmHex)) => NamesAsStated

\* C13 holds of the strings the pattern of hexDir matches, those with no
\* line terminator after the 6 digits.
C13_MatchedInputs ==
    (nmPc = "done" /\ RegexMatch(nmHex)) => NamesAsStated

\* the entries on the way from d down to n, both included
UpToRoot(n) ==
    {SubSeq(n, 1, k) : k \in Len(Split(delArg))..Len(n)}

\* C16: when a removal fails, deltree ends with an error and not with a
\* normal return, the failing call is the last one made, and the failing
\* entry and its ancestors up to d still exist.
C16_FailsLoudly ==
    \A i \in 1..Len(rmLog) :
        ~rmLog[i].ok
            => /\ delPc = "done" /\ delRes = "throw"
               /\ i = Len(rmLog)
               /\ \A a \in UpToRoot(rmLog[i].node) : IsEntry(a)

\* C16 witness: deltree has ended with an error on an entry two levels below
\* d, after it had removed another entry.
C16_Witness ==
    /\ delPc = "done" /\ delRes = "throw"
    /\ Len(rmLog) >= 2
    /\ rmLog[1].ok
    /\ ~rmLog[Len(rmLog)].ok
    /\ Len(rmLog[Len(rmLog)].node) >= Len(Split(delArg)) + 2

\* C17 as stated: hexDir fails by assertion, returning no path, on a string
\* shorter than 6 characters or with a character that is no hexadecimal
\* digit among its first 6, and does not fail on a string whose first 6
\* characters are hexadecimal digits, whatever follows them.
C17_Validation ==
    (nmPc = "done" /\ nmFn = "hexDir")
        => /\ ~StartsWith6Hex(nmHex) => nmOut = Aborted
           /\ StartsWith6Hex(nmHex) => nmOut # Aborted

\* what hexDir does: with assertions compiled in it fails exactly on the
\* strings its pattern does not match, which include 6 hexadecimal digits
\* followed by a line terminator; with NDEBUG it never fails and returns "//"
\* for those strings.
C17_PatternDecides ==
    (nmPc = "done" /\ nmFn = "hexDir")
        => /\ nmOut = Aborted <=> (~RegexMatch(nmHex) /\ ~ndebug)
           /\ (~RegexMatch(nmHex) /\ ndebug) => nmOut = <<"/", "/">>
           /\ RegexMatch(nmHex) =>
                 nmOut = SubSeq(nmHex, 1, 2) \o <<"/">> \o SubSeq(nmHex, 3, 4)
                           \o <<"/">> \o SubSeq(nmHex, 5, 6)

====
